---- MODULE Spec2Model ----
(***************************************************************************)
(* A model of the Bumddb backup-metadata catalog (bumddb.py) and of the    *)
(* catalog integrator (integrate.py).                                      *)
(*                                                                         *)
(* A database is a record of tables, each table the sequence of its rows   *)
(* in rowid order.  Every table is declared                                *)
(* "id INTEGER PRIMARY KEY AUTOINCREMENT" and no statement of the program  *)
(* deletes a row, so the id of a row is its position in the sequence.      *)
(***************************************************************************)
EXTENDS Integers, Sequences, FiniteSets, TLC

VARIABLES
    db,        \* the database as the writer's connection sees it
    durable,   \* the database as of the last commit
    readOnly,  \* the readOnly flag the table objects were constructed with
    last,      \* the last call made: its name, its arguments, what it returned
    integ,     \* the integrator's position in its loops (integrate.py main)
    conc,      \* two connections running Table.getId step by step
    issued     \* the <<table, id, value>> that GetOrCreate calls have returned

vars == <<db, durable, readOnly, last, integ, conc, issued>>

(***************************************************************************)
(* Values.                                                                 *)
(***************************************************************************)

\* Python's None and SQL's NULL, for ids, times and the other integer columns.
NULL == -1

\* SQL's "a = b" in a WHERE clause: never true when either side is NULL.
SqlEq(a, b) == a # NULL /\ b # NULL /\ a = b

Hosts == {"h1", "h2"}
Statuses == {"Setup", "Done"}
Paths == {"/a", "/a/b"}
Shas == {"x1", "x2"}

\* End times of runs.
EndTimes == {5, 6}

\* The (host, start time) pairs runs are opened with: two runs of one host
\* and a run of another host that starts with the later of the two.
RunKeys == {<<"h1", 1>>, <<"h1", 2>>, <<"h2", 2>>}

\* The directory observations callers record: run id, path and the record of
\* fileowner, filegroup, filemode and filetime.  Run id 4 names no run.
DirObs ==
    {[runId |-> o[1], filepath |-> o[2],
      attrs |-> [fileowner |-> 0, filegroup |-> 0, filemode |-> o[3], filetime |-> 7]] :
        o \in {<<1, "/a", 7>>, <<1, "/a", 5>>, <<2, "/a", 7>>, <<4, "/a/b", 7>>}}

\* The link observations callers record: run id, path and destination path.
LinkObs ==
    {[runId |-> o[1], filepath |-> o[2], destpath |-> o[3]] :
        o \in {<<1, "/a/b", "/a">>, <<2, "/a/b", "/a">>, <<1, "/a/b", "/a/b">>}}

\* The file observations callers record: run id, path, the record of
\* fileowner, filegroup, filemode, filesize and filetime, and the hash.  They
\* differ from the first in the run, the host of the run, the size, the
\* mtime, the path or the hash alone.
FileObs ==
    {[runId |-> o[1], filepath |-> o[2],
      attrs |-> [fileowner |-> 0, filegroup |-> 0, filemode |-> 6,
                 filesize |-> o[3], filetime |-> o[4]],
      filesha |-> o[5]] :
        o \in {<<1, "/a", 10, 7, "x1">>, <<2, "/a", 10, 7, "x2">>,
               <<3, "/a", 10, 7, "x1">>, <<2, "/a", 20, 7, "x1">>,
               <<1, "/a", 10, 8, "x2">>, <<1, "/a/b", 10, 7, "x2">>,
               <<2, "/a", 10, 7, "x1">>}}

\* The (size, mtime) pairs FindKnownHash is asked about.
FileStats == {<<10, 7>>, <<20, 7>>, <<10, 8>>}

\* The most run rows and the most observation rows (of the three snapshot
\* tables together) a behaviour of the model builds.
MaxRuns == 2
MaxObs == 2

\* The most rows the host dictionary grows to when two connections write it.
MaxHostRows == 3

DictNames == {"host_v1", "status_v1", "filepath_v1", "filesha_v1"}

DictValues(t) ==
    CASE t = "host_v1" -> Hosts
      [] t = "status_v1" -> Statuses
      [] t = "filepath_v1" -> Paths
      [] t = "filesha_v1" -> Shas

\* The database after every table's createTable on a new file.
EmptyDB ==
    [host_v1 |-> <<>>, status_v1 |-> <<>>, filepath_v1 |-> <<>>,
     filesha_v1 |-> <<>>, run_v1 |-> <<>>, directory_v1 |-> <<>>,
     link_v1 |-> <<>>, file_v1 |-> <<>>]

(***************************************************************************)
(* Table.getId                                                             *)
(***************************************************************************)

\* The ids a dictionary's getId_select finds for a value, in rowid order.
DictSelect(rows, v) == {i \in DOMAIN rows : rows[i] = v}

\* cursor.fetchone(): the first row of the result, None when there is none.
FetchOne(ids) == IF ids = {} THEN NULL ELSE CHOOSE i \in ids : \A j \in ids : i <= j

\* A bug a get-or-create could have: inserting without looking first.
Table_getId_AlwaysInsert(rows, ro, v) ==
    IF ro THEN [rows |-> rows, id |-> FetchOne(DictSelect(rows, v))]
    ELSE [rows |-> Append(rows, v), id |-> Len(rows) + 1]

\* A bug a get-or-create could have: inserting on a miss in read-only mode too.
Table_getId_IgnoreReadOnly(rows, ro, v) ==
    LET result == FetchOne(DictSelect(rows, v)) IN
    IF result = NULL THEN [rows |-> Append(rows, v), id |-> Len(rows) + 1]
    ELSE [rows |-> rows, id |-> result]

\* A bug a get-or-create could have: the new value written over the last row
\* of the table, under that row's id.
Table_getId_ReplaceLast(rows, ro, v) ==
    LET result == FetchOne(DictSelect(rows, v)) IN
    IF ro /\ result = NULL THEN [rows |-> rows, id |-> NULL]
    ELSE IF result = NULL
         THEN IF rows = <<>> THEN [rows |-> <<v>>, id |-> 1]
              ELSE [rows |-> [rows EXCEPT ![Len(rows)] = v], id |-> Len(rows)]
    ELSE [rows |-> rows, id |-> result]

\* Table.getId on a dictionary (dataSize = 1): the rows after the call and
\* the id it returns.
Table_getId(rows, ro, v) ==
    LET result == FetchOne(DictSelect(rows, v)) IN
    IF ro /\ result = NULL THEN [rows |-> rows, id |-> NULL]
    ELSE IF result = NULL THEN [rows |-> Append(rows, v), id |-> Len(rows) + 1]
    ELSE [rows |-> rows, id |-> result]

\* The ids of the rows a table's getId_select finds: the rows whose columns
\* named in data are all SQL-equal to data's.
RowSelect(rows, data) ==
    {i \in DOMAIN rows : \A c \in DOMAIN data : SqlEq(rows[i][c], data[c])}

\* A bug a get-or-create could have: inserting without looking first.
Row_getId_AlwaysInsert(rows, ro, data, rest) ==
    IF ro THEN [rows |-> rows, id |-> FetchOne(RowSelect(rows, data))]
    ELSE [rows |-> Append(rows, data @@ rest), id |-> Len(rows) + 1]

\* Table.getId as the Run, Directory, Link and File tables inherit it: data are
\* the columns of getId_select and getId_insert, rest the columns the insert
\* leaves NULL.
Row_getId(rows, ro, data, rest) ==
    LET result == FetchOne(RowSelect(rows, data)) IN
    IF ro /\ result = NULL THEN [rows |-> rows, id |-> NULL]
    ELSE IF result = NULL
         THEN [rows |-> Append(rows, data @@ rest), id |-> Len(rows) + 1]
    ELSE [rows |-> rows, id |-> result]

\* No columns beyond those of the insert.
NoRest == [c \in {} |-> NULL]

(***************************************************************************)
(* RunTable                                                                *)
(***************************************************************************)

\* "UPDATE run_v1 SET <col> = ? WHERE id = ?"
RunUpdate(rows, col, value, runId) ==
    [i \in DOMAIN rows |->
        IF SqlEq(i, runId) THEN [rows[i] EXCEPT ![col] = value] ELSE rows[i]]

\* A bug updateStatus could have: an UPDATE without its WHERE.
RunTable_updateStatus_AllRows(d, ro, runId, status) ==
    LET s == Table_getId(d.status_v1, ro, status) IN
    [d EXCEPT !.status_v1 = s.rows,
              !.run_v1 = [i \in DOMAIN d.run_v1 |->
                             [d.run_v1[i] EXCEPT !.status_id = s.id]]]

\* RunTable.updateStatus: the database after the call.
RunTable_updateStatus(d, ro, runId, status) ==
    LET s == Table_getId(d.status_v1, ro, status) IN
    [d EXCEPT !.status_v1 = s.rows,
              !.run_v1 = RunUpdate(d.run_v1, "status_id", s.id, runId)]

\* A bug updateEndtime could have: an UPDATE without its WHERE.
RunTable_updateEndtime_AllRows(d, runId, endTime) ==
    [d EXCEPT !.run_v1 = [i \in DOMAIN d.run_v1 |->
                             [d.run_v1[i] EXCEPT !.endtime = endTime]]]

\* RunTable.updateEndtime: the database after the call.
RunTable_updateEndtime(d, runId, endTime) ==
    [d EXCEPT !.run_v1 = RunUpdate(d.run_v1, "endtime", endTime, runId)]

\* A bug Open could have: keying the run on the start time alone.
RunTable_getId_IgnoreHost(d, ro, host, timestamp) ==
    LET h == Table_getId(d.host_v1, ro, host)
        r == Row_getId(d.run_v1, ro, [starttime |-> timestamp],
                       [host_id |-> h.id, endtime |-> NULL, status_id |-> NULL])
        d1 == [d EXCEPT !.host_v1 = h.rows, !.run_v1 = r.rows]
    IN  [db |-> RunTable_updateStatus(d1, ro, r.id, "Setup"), id |-> r.id]

\* A bug Open could have: "Setup" is set on the run it creates, and the
\* status of a run it finds is left as it is.
RunTable_getId_SetupOnlyWhenNew(d, ro, host, timestamp) ==
    LET h == Table_getId(d.host_v1, ro, host)
        r == Row_getId(d.run_v1, ro, [host_id |-> h.id, starttime |-> timestamp],
                       [endtime |-> NULL, status_id |-> NULL])
        d1 == [d EXCEPT !.host_v1 = h.rows, !.run_v1 = r.rows]
    IN  IF r.id \in DOMAIN d.run_v1 THEN [db |-> d1, id |-> r.id]
        ELSE [db |-> RunTable_updateStatus(d1, ro, r.id, "Setup"), id |-> r.id]

\* RunTable.getId: the database after the call and the run id it returns.
RunTable_getId(d, ro, host, timestamp) ==
    LET h == Table_getId(d.host_v1, ro, host)
        r == Row_getId(d.run_v1, ro, [host_id |-> h.id, starttime |-> timestamp],
                       [endtime |-> NULL, status_id |-> NULL])
        d1 == [d EXCEPT !.host_v1 = h.rows, !.run_v1 = r.rows]
    IN  [db |-> RunTable_updateStatus(d1, ro, r.id, "Setup"), id |-> r.id]

(***************************************************************************)
(* DirectoryTable, LinkTable, FileTable                                    *)
(***************************************************************************)

\* A bug Record could have: inserting without looking for the row first.
DirectoryTable_getId_AlwaysInsert(d, ro, runId, filepath, a) ==
    LET p == Table_getId(d.filepath_v1, ro, filepath)
        row == [run_id |-> runId, filepath_id |-> p.id] @@ a
    IN  IF ro THEN [db |-> d, id |-> FetchOne(RowSelect(d.directory_v1, row))]
        ELSE [db |-> [d EXCEPT !.filepath_v1 = p.rows,
                               !.directory_v1 = Append(@, row)],
              id |-> Len(d.directory_v1) + 1]

\* A bug Record could have: a select that leaves the attributes out.
DirectoryTable_getId_PathOnly(d, ro, runId, filepath, a) ==
    LET p == Table_getId(d.filepath_v1, ro, filepath)
        r == Row_getId(d.directory_v1, ro,
                       [run_id |-> runId, filepath_id |-> p.id], a)
    IN  [db |-> [d EXCEPT !.filepath_v1 = p.rows, !.directory_v1 = r.rows],
         id |-> r.id]

\* DirectoryTable.getId; a is the record of fileowner, filegroup, filemode and
\* filetime.
DirectoryTable_getId(d, ro, runId, filepath, a) ==
    LET p == Table_getId(d.filepath_v1, ro, filepath)
        r == Row_getId(d.directory_v1, ro,
                       [run_id |-> runId, filepath_id |-> p.id] @@ a, NoRest)
    IN  [db |-> [d EXCEPT !.filepath_v1 = p.rows, !.directory_v1 = r.rows],
         id |-> r.id]

\* LinkTable.getId
LinkTable_getId(d, ro, runId, filepath, destpath) ==
    LET p == Table_getId(d.filepath_v1, ro, filepath)
        q == Table_getId(p.rows, ro, destpath)
        r == Row_getId(d.link_v1, ro,
                       [run_id |-> runId, filepath_id |-> p.id,
                        destpath_id |-> q.id], NoRest)
    IN  [db |-> [d EXCEPT !.filepath_v1 = q.rows, !.link_v1 = r.rows],
         id |-> r.id]

\* FileTable.getId; a is the record of fileowner, filegroup, filemode, filesize
\* and filetime.
FileTable_getId(d, ro, runId, filepath, a, filesha) ==
    LET p == Table_getId(d.filepath_v1, ro, filepath)
        s == Table_getId(d.filesha_v1, ro, filesha)
        r == Row_getId(d.file_v1, ro,
                       [run_id |-> runId, filepath_id |-> p.id,
                        filesha_id |-> s.id] @@ a, NoRest)
    IN  [db |-> [d EXCEPT !.filepath_v1 = p.rows, !.filesha_v1 = s.rows,
                          !.file_v1 = r.rows],
         id |-> r.id]

\* The rows of getExistingRecord_select's join, as <<file id, run id, filesha
\* id>>, before ORDER BY and LIMIT.
ExistingRecordRows(d, hostId, filepathId, filesize, filetime) ==
    {<<f, r, s>> \in (DOMAIN d.file_v1) \X (DOMAIN d.run_v1) \X (DOMAIN d.filesha_v1) :
        /\ SqlEq(d.run_v1[r].host_id, hostId)
        /\ SqlEq(d.file_v1[f].filepath_id, filepathId)
        /\ SqlEq(d.file_v1[f].filesize, filesize)
        /\ SqlEq(d.file_v1[f].filetime, filetime)
        /\ SqlEq(d.file_v1[f].run_id, r)
        /\ SqlEq(s, d.file_v1[f].filesha_id)}

\* "ORDER BY r.starttime DESC": the rows that may come first.
NewestRows(d, rows) ==
    {x \in rows : \A y \in rows :
        d.run_v1[y[2]].starttime <= d.run_v1[x[2]].starttime}

\* A bug the lookup could have: taking the oldest matching run.
OldestRows(d, rows) ==
    {x \in rows : \A y \in rows :
        d.run_v1[x[2]].starttime <= d.run_v1[y[2]].starttime}

\* A bug the lookup could have: ORDER BY r.starttime ASC.
FirstExistingRecord_Oldest(d, rows) ==
    IF rows = {} THEN {NULL} ELSE {x[3] : x \in OldestRows(d, rows)}

\* "ORDER BY r.starttime DESC LIMIT 1" and fetchone(): the filesha ids the
\* query may return (the order among rows of equal starttime is not fixed by
\* the statement), NULL when no row matches.
FirstExistingRecord(d, rows) ==
    IF rows = {} THEN {NULL} ELSE {x[3] : x \in NewestRows(d, rows)}

\* FileTable.getExistingRecord: the database after the two dictionary getId
\* calls, and the set of filesha ids the select may return.
FileTable_getExistingRecord(d, ro, host, filepath, filesize, filetime) ==
    LET h == Table_getId(d.host_v1, ro, host)
        p == Table_getId(d.filepath_v1, ro, filepath)
        d1 == [d EXCEPT !.host_v1 = h.rows, !.filepath_v1 = p.rows]
    IN  [db |-> d1,
         ids |-> FirstExistingRecord(d1,
                    ExistingRecordRows(d1, h.id, p.id, filesize, filetime))]

(***************************************************************************)
(* The calls of a single writer.                                           *)
(***************************************************************************)

NoCall == [op |-> "none"]
IntegIdle == [pc |-> "idle"]
ConcIdle == [pc |-> "idle"]

\* The connections that write the same database file.
Writers == {1, 2}

\* GetOrCreate on one of the four dictionaries.
GetOrCreate(t, v) ==
    LET r == Table_getId(db[t], readOnly, v) IN
    /\ db' = [db EXCEPT ![t] = r.rows]
    /\ last' = [op |-> "getId", table |-> t, value |-> v, ret |-> r.id]
    /\ issued' = IF r.id = NULL THEN issued ELSE issued \cup {<<t, r.id, v>>}
    /\ UNCHANGED <<durable, readOnly, integ, conc>>

\* The table objects are constructed anew on the same database, with the
\* readOnly flag the caller passes (Table.__init__).
Reopen(ro) ==
    /\ ro # readOnly
    /\ readOnly' = ro
    /\ last' = [op |-> "init"]
    /\ UNCHANGED <<db, durable, integ, conc, issued>>

\* dbh.commit()
Commit ==
    /\ db # durable
    /\ durable' = db
    /\ last' = [op |-> "commit"]
    /\ UNCHANGED <<db, readOnly, integ, conc, issued>>

\* The run ids a caller may pass: those of the ledger and one that names no run.
RunIds == 1 .. (Len(db.run_v1) + 1)

ObsRows(d) == Len(d.directory_v1) + Len(d.link_v1) + Len(d.file_v1)

\* Open(host, startTime): RunTable.getId
Open(host, timestamp) ==
    LET r == RunTable_getId(db, readOnly, host, timestamp) IN
    /\ Len(r.db.run_v1) <= MaxRuns
    /\ db' = r.db
    /\ last' = [op |-> "Open", host |-> host, starttime |-> timestamp, ret |-> r.id]
    /\ UNCHANGED <<durable, readOnly, integ, conc, issued>>

\* SetStatus(runId, status): RunTable.updateStatus
SetStatus(runId, status) ==
    /\ db' = RunTable_updateStatus(db, readOnly, runId, status)
    /\ last' = [op |-> "SetStatus", runId |-> runId, status |-> status]
    /\ UNCHANGED <<durable, readOnly, integ, conc, issued>>

\* SetEndTime(runId, endTime): RunTable.updateEndtime
SetEndTime(runId, endTime) ==
    /\ db' = RunTable_updateEndtime(db, runId, endTime)
    /\ last' = [op |-> "SetEndTime", runId |-> runId, endtime |-> endTime]
    /\ UNCHANGED <<durable, readOnly, integ, conc, issued>>

\* Record on the Directory table: DirectoryTable.getId
RecordDirectory(runId, filepath, a) ==
    LET r == DirectoryTable_getId(db, readOnly, runId, filepath, a) IN
    /\ ObsRows(r.db) <= MaxObs
    /\ db' = r.db
    /\ last' = [op |-> "RecordDirectory", runId |-> runId, filepath |-> filepath,
                attrs |-> a, ret |-> r.id]
    /\ UNCHANGED <<durable, readOnly, integ, conc, issued>>

\* Record on the Link table: LinkTable.getId
RecordLink(runId, filepath, destpath) ==
    LET r == LinkTable_getId(db, readOnly, runId, filepath, destpath) IN
    /\ ObsRows(r.db) <= MaxObs
    /\ db' = r.db
    /\ last' = [op |-> "RecordLink", runId |-> runId, filepath |-> filepath,
                destpath |-> destpath, ret |-> r.id]
    /\ UNCHANGED <<durable, readOnly, integ, conc, issued>>

\* Record on the File table: FileTable.getId
RecordFile(runId, filepath, a, filesha) ==
    LET r == FileTable_getId(db, readOnly, runId, filepath, a, filesha) IN
    /\ ObsRows(r.db) <= MaxObs
    /\ db' = r.db
    /\ last' = [op |-> "RecordFile", runId |-> runId, filepath |-> filepath,
                attrs |-> a, filesha |-> filesha, ret |-> r.id]
    /\ UNCHANGED <<durable, readOnly, integ, conc, issued>>

\* FindKnownHash(host, path, size, mtime): FileTable.getExistingRecord, which
\* returns the filesha string of the row the select yields, or None.
FindKnownHash(host, filepath, filesize, filetime) ==
    LET r == FileTable_getExistingRecord(db, readOnly, host, filepath,
                                         filesize, filetime) IN
    \E id \in r.ids :
        /\ db' = r.db
        /\ last' = [op |-> "FindKnownHash", host |-> host, filepath |-> filepath,
                    filesize |-> filesize, filetime |-> filetime,
                    found |-> id # NULL,
                    ret |-> IF id = NULL THEN "" ELSE r.db.filesha_v1[id]]
        /\ UNCHANGED <<durable, readOnly, integ, conc, issued>>

(***************************************************************************)
(* The dictionaries on their own.                                          *)
(***************************************************************************)

InitDict ==
    /\ issued = {}
    /\ db = EmptyDB
    /\ durable = EmptyDB
    /\ readOnly \in BOOLEAN
    /\ last = NoCall
    /\ integ = IntegIdle
    /\ conc = ConcIdle

NextDict ==
    \/ \E t \in DictNames : \E v \in DictValues(t) : GetOrCreate(t, v)
    \/ \E ro \in BOOLEAN : Reopen(ro)

SpecDict == InitDict /\ [][NextDict]_vars

\* C1: in write mode every value of a dictionary has at most one row; a
\* GetOrCreate(v) on a value the dictionary lacks appends exactly one row and
\* returns its id, and a GetOrCreate(v) on a value it holds returns the id of
\* that one row and leaves the dictionary as it was.
C1_GetOrCreateOnce ==
    [][(last'.op = "getId" /\ ~readOnly) =>
        LET t == last'.table
            v == last'.value
        IN  /\ \A u \in DictNames : \A w \in DictValues(u) :
                   Cardinality(DictSelect(db'[u], w)) <= 1
            /\ DictSelect(db'[t], v) = {last'.ret}
            /\ \A u \in DictNames \ {t} : db'[u] = db[u]
            /\ IF DictSelect(db[t], v) = {}
               THEN db'[t] = Append(db[t], v) /\ last'.ret = Len(db[t]) + 1
               ELSE db'[t] = db[t] /\ DictSelect(db[t], v) = {last'.ret}]_vars

\* C1's case: a later GetOrCreate returned the id of an older row of a
\* dictionary that has grown since.
C1_Witness ==
    /\ last.op = "getId" /\ ~readOnly
    /\ last.ret # NULL /\ last.ret < Len(db[last.table])

\* C10: in read-only mode GetOrCreate changes no table; on a value the
\* dictionary lacks it returns NULL, which is the id of no row, and on a value
\* it holds it returns the id of the row.
C10_ReadOnlyLookup ==
    [][(last'.op = "getId" /\ readOnly) =>
        LET t == last'.table
            v == last'.value
        IN  /\ db' = db
            /\ IF DictSelect(db[t], v) = {}
               THEN last'.ret = NULL /\ \A u \in DictNames : NULL \notin DOMAIN db'[u]
               ELSE last'.ret \in DictSelect(db[t], v)]_vars

\* C10's case: a read-only miss on a dictionary that holds other values.
C10_Witness ==
    /\ last.op = "getId" /\ readOnly
    /\ last.ret = NULL /\ Len(db[last.table]) >= 1

(***************************************************************************)
(* The run ledger on its own.                                              *)
(***************************************************************************)

NextLedger ==
    \/ \E k \in RunKeys : Open(k[1], k[2])
    \/ \E r \in RunIds : \E s \in Statuses : SetStatus(r, s)
    \/ \E r \in RunIds : \E t \in EndTimes : SetEndTime(r, t)
    \/ \E ro \in BOOLEAN : Reopen(ro)

SpecLedger == InitDict /\ [][NextLedger]_vars

\* The host name a run row refers to.
HostOf(d, i) == d.host_v1[d.run_v1[i].host_id]

\* The run rows of d for a host name and a start time.
RunsOf(d, host, timestamp) ==
    {i \in DOMAIN d.run_v1 :
        /\ d.run_v1[i].host_id \in DOMAIN d.host_v1
        /\ HostOf(d, i) = host
        /\ d.run_v1[i].starttime = timestamp}

\* C3: in write mode the ledger holds at most one row per (host, start time);
\* Open on a pair the ledger lacks appends one run row for it and returns its
\* id, and Open on a pair it holds, whatever was done to the run since,
\* returns the id of that row and adds no row.
C3_OpenOnce ==
    [][(last'.op = "Open" /\ ~readOnly) =>
        LET h == last'.host
            t == last'.starttime
        IN  /\ \A k \in RunKeys : Cardinality(RunsOf(db', k[1], k[2])) <= 1
            /\ RunsOf(db', h, t) = {last'.ret}
            /\ IF RunsOf(db, h, t) = {}
               THEN /\ Len(db'.run_v1) = Len(db.run_v1) + 1
                    /\ last'.ret = Len(db.run_v1) + 1
               ELSE /\ Len(db'.run_v1) = Len(db.run_v1)
                    /\ RunsOf(db, h, t) = {last'.ret}]_vars

\* C3's case: Open returned the id of an older run whose end time had been set.
C3_Witness ==
    /\ last.op = "Open" /\ ~readOnly
    /\ last.ret # NULL /\ last.ret < Len(db.run_v1)
    /\ db.run_v1[last.ret].endtime # NULL

(***************************************************************************)
(* The snapshot tables, on a ledger that holds the three runs.             *)
(***************************************************************************)

\* The database after Open("h1", 1), Open("h1", 2), Open("h2", 2) in write mode.
LedgerDB ==
    LET d1 == RunTable_getId(EmptyDB, FALSE, "h1", 1).db
        d2 == RunTable_getId(d1, FALSE, "h1", 2).db
    IN  RunTable_getId(d2, FALSE, "h2", 2).db

InitSnap ==
    /\ issued = {}
    /\ db = LedgerDB
    /\ durable = LedgerDB
    /\ readOnly \in BOOLEAN
    /\ last = NoCall
    /\ integ = IntegIdle
    /\ conc = ConcIdle

NextSnap ==
    \/ \E o \in DirObs : RecordDirectory(o.runId, o.filepath, o.attrs)
    \/ \E o \in LinkObs : RecordLink(o.runId, o.filepath, o.destpath)
    \/ \E o \in FileObs : RecordFile(o.runId, o.filepath, o.attrs, o.filesha)
    \/ \E h \in Hosts : \E p \in Paths : \E st \in FileStats :
          FindKnownHash(h, p, st[1], st[2])
    \/ \E ro \in BOOLEAN : Reopen(ro)

SpecSnap == InitSnap /\ [][NextSnap]_vars

\* The rows of a snapshot table that hold an observation, its paths and hash
\* resolved through the dictionaries: o is a record of run_id, filepath and,
\* by table, destpath or filesha, and a the record of its other attributes.
ObsOf(d, table, o, a) ==
    {i \in DOMAIN d[table] :
        LET row == d[table][i] IN
        /\ row.run_id = o.run_id
        /\ row.filepath_id \in DOMAIN d.filepath_v1
        /\ d.filepath_v1[row.filepath_id] = o.filepath
        /\ table = "link_v1" =>
              /\ row.destpath_id \in DOMAIN d.filepath_v1
              /\ d.filepath_v1[row.destpath_id] = o.destpath
        /\ table = "file_v1" =>
              /\ row.filesha_id \in DOMAIN d.filesha_v1
              /\ d.filesha_v1[row.filesha_id] = o.filesha
        /\ \A c \in DOMAIN a : row[c] = a[c]}

\* The table a Record call is on, and the observation it was given.
RecordOps == {"RecordDirectory", "RecordLink", "RecordFile"}

RecordTable(call) ==
    CASE call.op = "RecordDirectory" -> "directory_v1"
      [] call.op = "RecordLink" -> "link_v1"
      [] call.op = "RecordFile" -> "file_v1"

RecordObs(call) ==
    CASE call.op = "RecordDirectory" ->
            [run_id |-> call.runId, filepath |-> call.filepath]
      [] call.op = "RecordLink" ->
            [run_id |-> call.runId, filepath |-> call.filepath,
             destpath |-> call.destpath]
      [] call.op = "RecordFile" ->
            [run_id |-> call.runId, filepath |-> call.filepath,
             filesha |-> call.filesha]

RecordAttrs(call) == IF call.op = "RecordLink" THEN NoRest ELSE call.attrs

\* C4: in write mode no two rows of a snapshot table are the same tuple; a
\* Record of an observation the table lacks appends one row for it and
\* returns its id, and a Record of an observation it holds returns the id of
\* that row and leaves the table as it was.
C4_RecordOnce ==
    [][(last'.op \in RecordOps /\ ~readOnly) =>
        LET t == RecordTable(last')
            o == RecordObs(last')
            a == RecordAttrs(last')
        IN  /\ \A u \in {"directory_v1", "link_v1", "file_v1"} :
                   \A i, j \in DOMAIN db'[u] : db'[u][i] = db'[u][j] => i = j
            /\ ObsOf(db', t, o, a) = {last'.ret}
            /\ \A u \in {"directory_v1", "link_v1", "file_v1"} \ {t} : db'[u] = db[u]
            /\ IF ObsOf(db, t, o, a) = {}
               THEN /\ Len(db'[t]) = Len(db[t]) + 1
                    /\ last'.ret = Len(db[t]) + 1
                    /\ \A i \in DOMAIN db[t] : db'[t][i] = db[t][i]
               ELSE /\ db'[t] = db[t]
                    /\ ObsOf(db, t, o, a) = {last'.ret}]_vars

\* C4's case: a Record on the File table returned the id of an older row.
C4_Witness ==
    /\ last.op = "RecordFile" /\ ~readOnly
    /\ last.ret # NULL /\ last.ret < Len(db.file_v1)

\* The File rows of a run of the host, with the path, the size and the mtime.
KnownFiles(d, host, filepath, filesize, filetime) ==
    {f \in DOMAIN d.file_v1 :
        LET row == d.file_v1[f] IN
        /\ row.run_id \in DOMAIN d.run_v1
        /\ d.run_v1[row.run_id].host_id \in DOMAIN d.host_v1
        /\ HostOf(d, row.run_id) = host
        /\ row.filepath_id \in DOMAIN d.filepath_v1
        /\ d.filepath_v1[row.filepath_id] = filepath
        /\ row.filesize = filesize
        /\ row.filetime = filetime}

StartOf(d, f) == d.run_v1[d.file_v1[f].run_id].starttime

\* C9: FindKnownHash returns NotFound exactly when no File row of a run of the
\* host has the path, the size and the mtime asked for; otherwise it returns
\* the hash of such a row whose run has the greatest start time among them.
C9_FindKnownHash ==
    last.op = "FindKnownHash" =>
        LET M == KnownFiles(db, last.host, last.filepath, last.filesize, last.filetime)
        IN  /\ last.found <=> M # {}
            /\ last.found =>
                  \E f \in M :
                      /\ db.filesha_v1[db.file_v1[f].filesha_id] = last.ret
                      /\ \A g \in M : StartOf(db, g) <= StartOf(db, f)

\* C9's case: a hit where an older run of the host holds the same path, size
\* and mtime under another hash.
C9_Witness ==
    /\ last.op = "FindKnownHash" /\ last.found
    /\ LET M == KnownFiles(db, last.host, last.filepath, last.filesize, last.filetime)
       IN  \E f, g \in M :
              /\ StartOf(db, g) < StartOf(db, f)
              /\ db.file_v1[f].filesha_id # db.file_v1[g].filesha_id

(***************************************************************************)
(* Two connections calling HostTable.getId, statement by statement.        *)
(*                                                                         *)
(* host_v1 is created with a plain index and no UNIQUE constraint, and     *)
(* getId takes no lock of its own: the select runs outside a transaction,  *)
(* the insert opens the connection's write transaction, which the caller's *)
(* commit ends.  SQLite lets one connection write at a time: the insert of *)
(* another waits until the writing connection has committed.  A connection *)
(* reads its own uncommitted rows and the committed rows of the others.    *)
(* db is the database as the writing connection sees it.                   *)
(***************************************************************************)

\* The database as connection w reads it.
View(w) == IF conc.holder = w THEN db ELSE durable

InitConc ==
    /\ issued = {}
    /\ db = EmptyDB
    /\ durable = EmptyDB
    /\ readOnly = FALSE
    /\ last = NoCall
    /\ integ = IntegIdle
    /\ conc = [pc |-> [w \in Writers |-> "idle"],
               value |-> [w \in Writers |-> "h1"],
               result |-> [w \in Writers |-> NULL],
               rowId |-> [w \in Writers |-> NULL],
               holder |-> 0]

\* getId is called; getId_select runs and fetchone takes its first row.
ConcSelect(w, v) ==
    /\ conc.pc[w] \in {"idle", "returned"}
    /\ conc' = [conc EXCEPT !.pc[w] = "selected",
                            !.value[w] = v,
                            !.result[w] = FetchOne(DictSelect(View(w).host_v1, v)),
                            !.rowId[w] = NULL]
    /\ UNCHANGED <<db, durable, readOnly, last, integ, issued>>

\* result is None: getId_insert runs, and getId returns lastrowid.
ConcInsert(w) ==
    /\ conc.pc[w] = "selected"
    /\ conc.result[w] = NULL
    /\ conc.holder \in {0, w}
    /\ Len(View(w).host_v1) < MaxHostRows
    /\ db' = [View(w) EXCEPT !.host_v1 = Append(@, conc.value[w])]
    /\ conc' = [conc EXCEPT !.pc[w] = "returned",
                            !.rowId[w] = Len(View(w).host_v1) + 1,
                            !.holder = w]
    /\ UNCHANGED <<durable, readOnly, last, integ, issued>>

\* result is a row: getId returns its id.
ConcFound(w) ==
    /\ conc.pc[w] = "selected"
    /\ conc.result[w] # NULL
    /\ conc' = [conc EXCEPT !.pc[w] = "returned", !.rowId[w] = conc.result[w]]
    /\ UNCHANGED <<db, durable, readOnly, last, integ, issued>>

\* The caller of w commits, between two getId calls.
ConcCommit(w) ==
    /\ conc.holder = w
    /\ conc.pc[w] # "selected"
    /\ durable' = db
    /\ conc' = [conc EXCEPT !.holder = 0]
    /\ UNCHANGED <<db, readOnly, last, integ, issued>>

NextConc ==
    \/ \E w \in Writers : \E v \in Hosts : ConcSelect(w, v)
    \/ \E w \in Writers : ConcInsert(w)
    \/ \E w \in Writers : ConcFound(w)
    \/ \E w \in Writers : ConcCommit(w)

SpecConc == InitConc /\ [][NextConc]_vars

\* C2: with two connections in GetOrCreate at once, no host value has two
\* rows, uncommitted or committed, and two calls that have returned for the
\* same value returned the same id.
C2_NoDuplicateUnderRace ==
    /\ \A v \in Hosts : Cardinality(DictSelect(db.host_v1, v)) <= 1
    /\ \A v \in Hosts : Cardinality(DictSelect(durable.host_v1, v)) <= 1
    /\ \A w, x \in Writers :
          (/\ conc.pc[w] = "returned" /\ conc.pc[x] = "returned"
           /\ conc.value[w] = conc.value[x])
          => conc.rowId[w] = conc.rowId[x]

(***************************************************************************)
(* integrate.py: main                                                      *)
(***************************************************************************)

\* The rows of the run cursor's select on a source: the runs whose host and
\* status the joins find.
SourceRuns(src) ==
    {r \in DOMAIN src.run_v1 :
        /\ src.run_v1[r].host_id \in DOMAIN src.host_v1
        /\ src.run_v1[r].status_id \in DOMAIN src.status_v1}

\* The rows of the directory, link and file cursors' selects for a source run.
SourceDirs(src, r) ==
    {i \in DOMAIN src.directory_v1 :
        /\ SqlEq(src.directory_v1[i].run_id, r)
        /\ src.directory_v1[i].filepath_id \in DOMAIN src.filepath_v1}

SourceLinks(src, r) ==
    {i \in DOMAIN src.link_v1 :
        /\ SqlEq(src.link_v1[i].run_id, r)
        /\ src.link_v1[i].filepath_id \in DOMAIN src.filepath_v1
        /\ src.link_v1[i].destpath_id \in DOMAIN src.filepath_v1}

SourceFiles(src, r) ==
    {i \in DOMAIN src.file_v1 :
        /\ SqlEq(src.file_v1[i].run_id, r)
        /\ src.file_v1[i].filepath_id \in DOMAIN src.filepath_v1
        /\ src.file_v1[i].filesha_id \in DOMAIN src.filesha_v1}

\* The attribute columns of a directory row and of a file row.
DirCols == {"fileowner", "filegroup", "filemode", "filetime"}
FileCols == {"fileowner", "filegroup", "filemode", "filesize", "filetime"}

\* A bug main could have: the run is opened and the status and end time of
\* the source run are not copied.
IntegOpenRun_NoCopy(d, src, r) ==
    LET run == src.run_v1[r] IN
    RunTable_getId(d, FALSE, src.host_v1[run.host_id], run.starttime)

\* Lines 53-55: the destination run is opened for the source run's host and
\* start time, and the source run's status and end time are copied to it.
IntegOpenRun(d, src, r) ==
    LET run == src.run_v1[r]
        o == RunTable_getId(d, FALSE, src.host_v1[run.host_id], run.starttime)
        d1 == RunTable_updateStatus(o.db, FALSE, o.id, src.status_v1[run.status_id])
    IN  [db |-> RunTable_updateEndtime(d1, o.id, run.endtime), id |-> o.id]

\* Line 68: one row of the directory cursor is recorded under the destination run.
IntegCopyDir(d, src, destRunId, i) ==
    LET row == src.directory_v1[i] IN
    DirectoryTable_getId(d, FALSE, destRunId, src.filepath_v1[row.filepath_id],
                         [c \in DirCols |-> row[c]]).db

\* Line 83: one row of the link cursor.
IntegCopyLink(d, src, destRunId, i) ==
    LET row == src.link_v1[i] IN
    LinkTable_getId(d, FALSE, destRunId, src.filepath_v1[row.filepath_id],
                    src.filepath_v1[row.destpath_id]).db

\* A bug the integrator could have: recording under the source's run id.
IntegCopyFile_SourceRunId(d, src, destRunId, i) ==
    LET row == src.file_v1[i] IN
    FileTable_getId(d, FALSE, row.run_id, src.filepath_v1[row.filepath_id],
                    [c \in FileCols |-> row[c]], src.filesha_v1[row.filesha_id]).db

\* Line 98: one row of the file cursor.
IntegCopyFile(d, src, destRunId, i) ==
    LET row == src.file_v1[i] IN
    FileTable_getId(d, FALSE, destRunId, src.filepath_v1[row.filepath_id],
                    [c \in FileCols |-> row[c]], src.filesha_v1[row.filesha_id]).db

\* The loops of main run to their end, the rows of each cursor taken in rowid
\* order: the destination after the loop over the rows ids.
RECURSIVE CopyDirs(_, _, _, _)
CopyDirs(d, src, destRunId, ids) ==
    IF ids = {} THEN d
    ELSE LET i == FetchOne(ids) IN
         CopyDirs(IntegCopyDir(d, src, destRunId, i), src, destRunId, ids \ {i})

RECURSIVE CopyLinks(_, _, _, _)
CopyLinks(d, src, destRunId, ids) ==
    IF ids = {} THEN d
    ELSE LET i == FetchOne(ids) IN
         CopyLinks(IntegCopyLink(d, src, destRunId, i), src, destRunId, ids \ {i})

RECURSIVE CopyFiles(_, _, _, _)
CopyFiles(d, src, destRunId, ids) ==
    IF ids = {} THEN d
    ELSE LET i == FetchOne(ids) IN
         CopyFiles(IntegCopyFile(d, src, destRunId, i), src, destRunId, ids \ {i})

\* Lines 35-101 for one source run.
IntegrateRun(d, src, r) ==
    LET o == IntegOpenRun(d, src, r)
        d1 == CopyDirs(o.db, src, o.id, SourceDirs(src, r))
        d2 == CopyLinks(d1, src, o.id, SourceLinks(src, r))
    IN  CopyFiles(d2, src, o.id, SourceFiles(src, r))

RECURSIVE IntegrateRuns(_, _, _)
IntegrateRuns(d, src, ids) ==
    IF ids = {} THEN d
    ELSE LET r == FetchOne(ids) IN
         IntegrateRuns(IntegrateRun(d, src, r), src, ids \ {r})

\* Lines 24-103: main on a destination and a sequence of sources.
RECURSIVE IntegrateAll(_, _)
IntegrateAll(d, srcs) ==
    IF srcs = <<>> THEN d
    ELSE IntegrateAll(IntegrateRuns(d, Head(srcs), SourceRuns(Head(srcs))), Tail(srcs))

(***************************************************************************)
(* The catalogs the integrator is run on, each built by the calls of a     *)
(* backup agent in write mode.                                             *)
(***************************************************************************)

DirA(m) == [fileowner |-> 0, filegroup |-> 0, filemode |-> m, filetime |-> 7]
FileA(size, mtime) ==
    [fileowner |-> 0, filegroup |-> 0, filemode |-> 6, filesize |-> size,
     filetime |-> mtime]

\* A finished run of h1 with a directory and a file.
CatA ==
    LET d1 == RunTable_getId(EmptyDB, FALSE, "h1", 1).db
        d2 == RunTable_updateStatus(d1, FALSE, 1, "Done")
        d3 == RunTable_updateEndtime(d2, 1, 5)
        d4 == DirectoryTable_getId(d3, FALSE, 1, "/a", DirA(7)).db
    IN  FileTable_getId(d4, FALSE, 1, "/a/b", FileA(10, 7), "x1").db

\* A run of h2 still open, and the run of h1 of CatA as another agent saw it:
\* failed, ended later, the directory with another mode, a link.
CatB ==
    LET d1 == RunTable_getId(EmptyDB, FALSE, "h2", 2).db
        d2 == FileTable_getId(d1, FALSE, 1, "/a/b", FileA(10, 7), "x2").db
        d3 == RunTable_getId(d2, FALSE, "h1", 1).db
        d4 == RunTable_updateStatus(d3, FALSE, 2, "Failed")
        d5 == RunTable_updateEndtime(d4, 2, 6)
        d6 == DirectoryTable_getId(d5, FALSE, 2, "/a", DirA(5)).db
    IN  LinkTable_getId(d6, FALSE, 2, "/a/b", "/a").db

\* The run of h1 of CatA with the same status and end time, and another file.
CatC ==
    LET d1 == RunTable_getId(EmptyDB, FALSE, "h1", 1).db
        d2 == FileTable_getId(d1, FALSE, 1, "/a", FileA(20, 7), "x2").db
        d3 == FileTable_getId(d2, FALSE, 1, "/a/b", FileA(10, 7), "x1").db
        d4 == RunTable_updateEndtime(d3, 1, 5)
    IN  RunTable_updateStatus(d4, FALSE, 1, "Done")

Catalogs == {EmptyDB, CatA, CatB, CatC}

\* A destination that holds a run no source has and the run of h1, finished,
\* with an end time of its own.
DestD ==
    LET d1 == RunTable_getId(EmptyDB, FALSE, "h2", 1).db
        d2 == RunTable_updateEndtime(d1, 1, 6)
        d3 == DirectoryTable_getId(d2, FALSE, 1, "/a/b", DirA(7)).db
        d4 == RunTable_getId(d3, FALSE, "h1", 1).db
        d5 == RunTable_updateStatus(d4, FALSE, 2, "Done")
        d6 == RunTable_updateEndtime(d5, 2, 6)
    IN  DirectoryTable_getId(d6, FALSE, 2, "/a", DirA(7)).db

Destinations == {EmptyDB, DestD, CatA}

(***************************************************************************)
(* The integrator, step by step.  No select of main has an ORDER BY: the   *)
(* rows of a cursor come in an order the statement does not fix.           *)
(***************************************************************************)

InitInteg ==
    /\ issued = {}
    /\ db \in Destinations
    /\ durable = db
    /\ readOnly = FALSE
    /\ last = NoCall
    /\ conc = ConcIdle
    /\ \E a \in Catalogs : \E b \in Catalogs :
          integ = [pc |-> "idle", pass |-> 0, srcs |-> <<a, b>>, s |-> 1,
                   todoRuns |-> {}, cur |-> NULL, destRunId |-> NULL,
                   todoDirs |-> {}, todoLinks |-> {}, todoFiles |-> {},
                   db0 |-> db, db1 |-> db]

\* main is started (a second time, once it has ended): the tables exist, the
\* first source is opened and the run cursor's select is executed.
IntegStart ==
    /\ integ.pc \in {"idle", "done"}
    /\ integ.pass < 2
    /\ integ' = [integ EXCEPT !.pc = "running", !.pass = @ + 1, !.s = 1,
                              !.todoRuns = SourceRuns(integ.srcs[1])]
    /\ UNCHANGED <<db, durable, readOnly, last, conc, issued>>

\* Lines 35-60: the next row of the run cursor.
IntegRun(r) ==
    LET src == integ.srcs[integ.s]
        o == IntegOpenRun(db, src, r)
    IN  /\ integ.pc = "running"
        /\ integ.cur = NULL
        /\ r \in integ.todoRuns
        /\ db' = o.db
        /\ integ' = [integ EXCEPT !.todoRuns = @ \ {r}, !.cur = r,
                                  !.destRunId = o.id,
                                  !.todoDirs = SourceDirs(src, r),
                                  !.todoLinks = SourceLinks(src, r),
                                  !.todoFiles = SourceFiles(src, r)]
        /\ UNCHANGED <<durable, readOnly, last, conc, issued>>

\* Lines 61-68: the next row of the directory cursor.
IntegDir(i) ==
    /\ integ.pc = "running" /\ integ.cur # NULL
    /\ i \in integ.todoDirs
    /\ db' = IntegCopyDir(db, integ.srcs[integ.s], integ.destRunId, i)
    /\ integ' = [integ EXCEPT !.todoDirs = @ \ {i}]
    /\ UNCHANGED <<durable, readOnly, last, conc, issued>>

\* Lines 76-83: the next row of the link cursor.
IntegLink(i) ==
    /\ integ.pc = "running" /\ integ.cur # NULL
    /\ integ.todoDirs = {}
    /\ i \in integ.todoLinks
    /\ db' = IntegCopyLink(db, integ.srcs[integ.s], integ.destRunId, i)
    /\ integ' = [integ EXCEPT !.todoLinks = @ \ {i}]
    /\ UNCHANGED <<durable, readOnly, last, conc, issued>>

\* A bug main could have: a commit after every row of the file cursor.
IntegFile_CommitEachRow(i) ==
    /\ integ.pc = "running" /\ integ.cur # NULL
    /\ integ.todoDirs = {} /\ integ.todoLinks = {}
    /\ i \in integ.todoFiles
    /\ db' = IntegCopyFile(db, integ.srcs[integ.s], integ.destRunId, i)
    /\ durable' = db'
    /\ integ' = [integ EXCEPT !.todoFiles = @ \ {i}]
    /\ UNCHANGED <<readOnly, last, conc, issued>>

\* Lines 91-98: the next row of the file cursor.
IntegFile(i) ==
    /\ integ.pc = "running" /\ integ.cur # NULL
    /\ integ.todoDirs = {} /\ integ.todoLinks = {}
    /\ i \in integ.todoFiles
    /\ db' = IntegCopyFile(db, integ.srcs[integ.s], integ.destRunId, i)
    /\ integ' = [integ EXCEPT !.todoFiles = @ \ {i}]
    /\ UNCHANGED <<durable, readOnly, last, conc, issued>>

\* Line 101: destDB.commit() at the end of the run's block.
IntegCommit ==
    /\ integ.pc = "running" /\ integ.cur # NULL
    /\ integ.todoDirs = {} /\ integ.todoLinks = {} /\ integ.todoFiles = {}
    /\ durable' = db
    /\ integ' = [integ EXCEPT !.cur = NULL, !.destRunId = NULL]
    /\ UNCHANGED <<db, readOnly, last, conc, issued>>

\* Lines 103 and 24-34: the run cursor is exhausted, the source is closed and
\* the next one opened.
IntegNextSource ==
    /\ integ.pc = "running" /\ integ.cur = NULL
    /\ integ.todoRuns = {}
    /\ integ.s < Len(integ.srcs)
    /\ integ' = [integ EXCEPT !.s = @ + 1,
                              !.todoRuns = SourceRuns(integ.srcs[integ.s + 1])]
    /\ UNCHANGED <<db, durable, readOnly, last, conc, issued>>

\* The last source is closed and main returns.
IntegDone ==
    /\ integ.pc = "running" /\ integ.cur = NULL
    /\ integ.todoRuns = {}
    /\ integ.s = Len(integ.srcs)
    /\ integ' = [integ EXCEPT !.pc = "done",
                              !.db1 = IF integ.pass = 1 THEN db ELSE @]
    /\ UNCHANGED <<db, durable, readOnly, last, conc, issued>>

NextInteg ==
    \/ IntegStart
    \/ \E r \in DOMAIN integ.srcs[integ.s].run_v1 : IntegRun(r)
    \/ \E i \in DOMAIN integ.srcs[integ.s].directory_v1 : IntegDir(i)
    \/ \E i \in DOMAIN integ.srcs[integ.s].link_v1 : IntegLink(i)
    \/ \E i \in DOMAIN integ.srcs[integ.s].file_v1 : IntegFile(i)
    \/ IntegCommit
    \/ IntegNextSource
    \/ IntegDone

SpecInteg == InitInteg /\ [][NextInteg]_vars

(***************************************************************************)
(* What a catalog says, its ids resolved to values.                        *)
(***************************************************************************)

RunKeyOf(d, i) == <<HostOf(d, i), d.run_v1[i].starttime>>

ResolvedKeys(d) == {RunKeyOf(d, i) : i \in DOMAIN d.run_v1}

\* A run row: host, start time, end time and status.
RunInfo(d, i) ==
    [host |-> HostOf(d, i), starttime |-> d.run_v1[i].starttime,
     endtime |-> d.run_v1[i].endtime,
     status |-> d.status_v1[d.run_v1[i].status_id]]

ResolvedRuns(d) == {RunInfo(d, i) : i \in DOMAIN d.run_v1}

\* The observations, each with the host and start time of its run.
ResolvedObs(d) ==
    {[kind |-> "DIR", run |-> RunKeyOf(d, d.directory_v1[i].run_id),
      filepath |-> d.filepath_v1[d.directory_v1[i].filepath_id],
      attrs |-> [c \in DirCols |-> d.directory_v1[i][c]]] :
        i \in DOMAIN d.directory_v1}
    \cup
    {[kind |-> "LINK", run |-> RunKeyOf(d, d.link_v1[i].run_id),
      filepath |-> d.filepath_v1[d.link_v1[i].filepath_id],
      destpath |-> d.filepath_v1[d.link_v1[i].destpath_id]] :
        i \in DOMAIN d.link_v1}
    \cup
    {[kind |-> "FILE", run |-> RunKeyOf(d, d.file_v1[i].run_id),
      filepath |-> d.filepath_v1[d.file_v1[i].filepath_id],
      attrs |-> [c \in FileCols |-> d.file_v1[i][c]],
      filesha |-> d.filesha_v1[d.file_v1[i].filesha_id]] :
        i \in DOMAIN d.file_v1}

\* The values of a dictionary.
DictSet(d, t) == {d[t][i] : i \in DOMAIN d[t]}

TableNames == DOMAIN EmptyDB

\* main has run once to its end.
FirstPassDone == integ.pc = "done" /\ integ.pass = 1

\* C5: a second run of the integrator on the same sources leaves the row
\* count of every table of the destination as the first run left it.
C5_IntegrateIdempotent ==
    (integ.pc = "done" /\ integ.pass = 2) =>
        \A t \in TableNames : Len(db[t]) = Len(integ.db1[t])

\* C5's case: two runs of the integrator on two different catalogs that added
\* runs and files to the destination.
C5_Witness ==
    /\ integ.pc = "done" /\ integ.pass = 2
    /\ integ.srcs[1] # integ.srcs[2]
    /\ Len(db.run_v1) > Len(integ.db0.run_v1)
    /\ Len(db.file_v1) > Len(integ.db0.file_v1) + 1

\* The destination main leaves when the two sources are given the other way
\* round.
OtherOrder == IntegrateAll(integ.db0, <<integ.srcs[2], integ.srcs[1]>>)

\* The run of a source for a (host, start time) pair, if it has one.
SourceRunsOf(src, k) == {r \in SourceRuns(src) : RunKeyOf(src, r) = k}

\* Both sources hold the run k, with different status or end time.
Conflict(k) ==
    \E r1 \in SourceRunsOf(integ.srcs[1], k) :
        \E r2 \in SourceRunsOf(integ.srcs[2], k) :
            RunInfo(integ.srcs[1], r1) # RunInfo(integ.srcs[2], r2)

\* C6 as claimed: the two orders leave the same runs, status and end time
\* included, and the same observations.
C6_OrderIndependent ==
    FirstPassDone =>
        /\ ResolvedRuns(db) = ResolvedRuns(OtherOrder)
        /\ ResolvedObs(db) = ResolvedObs(OtherOrder)

\* C6 as amended: the two orders leave the same hosts, the same (host, start
\* time) runs and the same observations; a run has the same status and end
\* time in both unless the two sources hold it with different ones, and then
\* each order leaves those of the source it processed last.
C6_OrderIndependentButLastWins ==
    FirstPassDone =>
        /\ DictSet(db, "host_v1") = DictSet(OtherOrder, "host_v1")
        /\ ResolvedKeys(db) = ResolvedKeys(OtherOrder)
        /\ ResolvedObs(db) = ResolvedObs(OtherOrder)
        /\ \A i \in DOMAIN db.run_v1 :
              LET k == RunKeyOf(db, i) IN
              IF Conflict(k)
              THEN /\ \E r \in SourceRunsOf(integ.srcs[2], k) :
                         RunInfo(db, i) = RunInfo(integ.srcs[2], r)
                   /\ \E r \in SourceRunsOf(integ.srcs[1], k) :
                         RunInfo(integ.srcs[1], r) \in ResolvedRuns(OtherOrder)
              ELSE RunInfo(db, i) \in ResolvedRuns(OtherOrder)

\* C6's case: the two sources hold the same run with different status and end
\* time, and directories of it that differ in their mode.
C6_Witness ==
    /\ FirstPassDone
    /\ \E i \in DOMAIN db.run_v1 : Conflict(RunKeyOf(db, i))
    /\ \E o1, o2 \in ResolvedObs(db) :
          /\ o1.kind = "DIR" /\ o2.kind = "DIR"
          /\ o1.run = o2.run /\ o1.filepath = o2.filepath /\ o1 # o2

\* Some source holds the run k.
InSources(k) ==
    \E n \in DOMAIN integ.srcs : SourceRunsOf(integ.srcs[n], k) # {}

\* The last source that holds the run k.
LastSourceOf(k) ==
    CHOOSE n \in DOMAIN integ.srcs :
        /\ SourceRunsOf(integ.srcs[n], k) # {}
        /\ \A m \in DOMAIN integ.srcs : SourceRunsOf(integ.srcs[m], k) # {} => m <= n

\* C7 as claimed: every row the destination held before the integrator ran is
\* there after it, under the same id and with the same values.
C7_PureUnion ==
    integ.pc = "done" =>
        \A t \in TableNames : \A i \in DOMAIN integ.db0[t] :
            /\ i \in DOMAIN db[t]
            /\ db[t][i] = integ.db0[t][i]

\* C7 as amended: every dictionary entry and observation row the destination
\* held is kept under its id with its values, and every run row under its id
\* with its host and start time; the status and end time of a run no source
\* holds are kept, and those of a run some source holds are, once the
\* integrator has ended, those of the last such source.
C7_UnionButRunsRewritten ==
    /\ \A t \in TableNames \ {"run_v1"} : \A i \in DOMAIN integ.db0[t] :
          /\ i \in DOMAIN db[t]
          /\ db[t][i] = integ.db0[t][i]
    /\ \A i \in DOMAIN integ.db0.run_v1 :
          /\ i \in DOMAIN db.run_v1
          /\ db.run_v1[i].host_id = integ.db0.run_v1[i].host_id
          /\ db.run_v1[i].starttime = integ.db0.run_v1[i].starttime
          /\ ~InSources(RunKeyOf(integ.db0, i)) => db.run_v1[i] = integ.db0.run_v1[i]
          /\ (InSources(RunKeyOf(integ.db0, i)) /\ integ.pc = "done") =>
                LET k == RunKeyOf(integ.db0, i)
                    src == integ.srcs[LastSourceOf(k)]
                IN  \E r \in SourceRunsOf(src, k) : RunInfo(db, i) = RunInfo(src, r)

\* C7's case: the integrator has ended on a destination that held a run no
\* source holds and a run a source holds with another end time.
C7_Witness ==
    /\ integ.pc = "done"
    /\ \E i \in DOMAIN integ.db0.run_v1 : ~InSources(RunKeyOf(integ.db0, i))
    /\ \E i \in DOMAIN integ.db0.run_v1 :
          /\ InSources(RunKeyOf(integ.db0, i))
          /\ db.run_v1[i].endtime # integ.db0.run_v1[i].endtime

\* C8: once the integrator has ended, every run of every source has exactly
\* one destination run row with its host and start time, every directory,
\* link and file of the source run is held under that destination run with
\* the same resolved values, and no dictionary of the destination holds a
\* value twice.
C8_AllObservationsMigrated ==
    integ.pc = "done" =>
        /\ \A t \in DictNames : \A i, j \in DOMAIN db[t] : db[t][i] = db[t][j] => i = j
        /\ \A n \in DOMAIN integ.srcs :
              LET src == integ.srcs[n] IN
              \A r \in SourceRuns(src) :
                  /\ Cardinality(RunsOf(db, HostOf(src, r), src.run_v1[r].starttime)) = 1
                  /\ \A o \in ResolvedObs(src) :
                        o.run = RunKeyOf(src, r) => o \in ResolvedObs(db)

\* C8's case: the integrator has ended on an empty destination and two
\* different catalogs that both hold the same run, each with files.
C8_Witness ==
    /\ integ.pc = "done"
    /\ integ.db0 = EmptyDB
    /\ integ.srcs[1] # integ.srcs[2]
    /\ \E k \in ResolvedKeys(db) :
          /\ SourceRunsOf(integ.srcs[1], k) # {}
          /\ SourceRunsOf(integ.srcs[2], k) # {}
          /\ \E o1, o2 \in ResolvedObs(db) :
                o1.kind = "FILE" /\ o2.kind = "FILE" /\ o1.run = k /\ o2.run = k /\ o1 # o2

(***************************************************************************)
(* Text and SQL's LIKE.                                                    *)
(***************************************************************************)

\* The characters of the strings the model uses as paths, filters and terms.
Text(s) ==
    CASE s = "/a" -> <<"/", "a">>
      [] s = "/a/b" -> <<"/", "a", "/", "b">>
      [] s = "/A" -> <<"/", "A">>
      [] s = "/_" -> <<"/", "_">>
      [] s = "/b" -> <<"/", "b">>
      [] s = "a" -> <<"a">>
      [] s = "b" -> <<"b">>
      [] s = "B" -> <<"B">>
      [] s = "x" -> <<"x">>

\* SQLite's LIKE compares ASCII letters without regard to case.
Fold(c) == CASE c = "A" -> "a" [] c = "B" -> "b" [] OTHER -> c

\* text LIKE pat: "%" stands for any characters, "_" for any one character.
RECURSIVE Like(_, _)
Like(text, pat) ==
    IF pat = <<>> THEN text = <<>>
    ELSE IF Head(pat) = "%"
         THEN Like(text, Tail(pat)) \/ (text # <<>> /\ Like(Tail(text), pat))
    ELSE /\ text # <<>>
         /\ Head(pat) = "_" \/ Fold(Head(pat)) = Fold(Head(text))
         /\ Like(Tail(text), Tail(pat))

\* "p.filepath LIKE ?||'%'"
LikePrefix(path, subject) == Like(Text(path), Text(subject) \o <<"%">>)

\* A bug the pattern of search could have: no "%" before the term.
LikeContains_NoLeading(path, term) == Like(Text(path), Text(term) \o <<"%">>)

\* "p.filepath LIKE ?" with ("%" + term + "%")
LikeContains(path, term) == Like(Text(path), <<"%">> \o Text(term) \o <<"%">>)

\* path starts with the characters of prefix, as they are.
StartsWith(path, prefix) ==
    /\ Len(Text(prefix)) <= Len(Text(path))
    /\ SubSeq(Text(path), 1, Len(Text(prefix))) = Text(prefix)

\* path holds the characters of term, as they are, somewhere.
Contains(path, term) ==
    \E k \in 0 .. Len(Text(path)) :
        /\ k + Len(Text(term)) <= Len(Text(path))
        /\ SubSeq(Text(path), k + 1, k + Len(Text(term))) = Text(term)

(***************************************************************************)
(* restoreList                                                             *)
(***************************************************************************)

\* The rows of a set of row ids as a sequence, in rowid order.
RECURSIVE InRowidOrder(_)
InRowidOrder(ids) ==
    IF ids = {} THEN <<>>
    ELSE LET i == FetchOne(ids) IN <<i>> \o InRowidOrder(ids \ {i})

\* The concatenation of a sequence of sequences.
RECURSIVE Flatten(_)
Flatten(ss) == IF ss = <<>> THEN <<>> ELSE Head(ss) \o Flatten(Tail(ss))

\* The record restoreList yields for a row of a snapshot table.
DirResult(d, i) ==
    [filepath |-> d.filepath_v1[d.directory_v1[i].filepath_id]]
    @@ [c \in DirCols |-> d.directory_v1[i][c]]

LinkResult(d, i) ==
    [filepath |-> d.filepath_v1[d.link_v1[i].filepath_id],
     destpath |-> d.filepath_v1[d.link_v1[i].destpath_id]]

FileResult(d, i) ==
    [filepath |-> d.filepath_v1[d.file_v1[i].filepath_id],
     filesha |-> d.filesha_v1[d.file_v1[i].filesha_id]]
    @@ [c \in {"fileowner", "filegroup", "filemode", "filetime"} |-> d.file_v1[i][c]]

\* The rows of restoreList_select_all and restoreList_select_subject on the
\* Directory table.
DirRowsAll(d, runId) ==
    {i \in DOMAIN d.directory_v1 :
        /\ SqlEq(d.directory_v1[i].run_id, runId)
        /\ d.directory_v1[i].filepath_id \in DOMAIN d.filepath_v1}

DirRowsSubject(d, runId, subject) ==
    {i \in DirRowsAll(d, runId) :
        LikePrefix(d.filepath_v1[d.directory_v1[i].filepath_id], subject)}

\* DirectoryTable.restoreList: what the generator yields, the rows of each
\* select in rowid order (no select has an ORDER BY).
DirectoryTable_restoreList(d, runId, subjectlist) ==
    IF Len(subjectlist) = 0
    THEN [error |-> "none",
          rows |-> [n \in DOMAIN InRowidOrder(DirRowsAll(d, runId)) |->
                       DirResult(d, InRowidOrder(DirRowsAll(d, runId))[n])]]
    ELSE [error |-> "none",
          rows |-> Flatten([k \in DOMAIN subjectlist |->
                      LET ids == InRowidOrder(DirRowsSubject(d, runId, subjectlist[k]))
                      IN  [n \in DOMAIN ids |-> DirResult(d, ids[n])]])]

LinkRowsAll(d, runId) ==
    {i \in DOMAIN d.link_v1 :
        /\ SqlEq(d.link_v1[i].run_id, runId)
        /\ d.link_v1[i].filepath_id \in DOMAIN d.filepath_v1
        /\ d.link_v1[i].destpath_id \in DOMAIN d.filepath_v1}

\* LinkTable.restoreList: with subjects, the loop is over the name "subjects",
\* which nothing defines, and the generator raises NameError when it is run.
LinkTable_restoreList(d, runId, subjectlist) ==
    IF Len(subjectlist) = 0
    THEN [error |-> "none",
          rows |-> [n \in DOMAIN InRowidOrder(LinkRowsAll(d, runId)) |->
                       LinkResult(d, InRowidOrder(LinkRowsAll(d, runId))[n])]]
    ELSE [error |-> "NameError", rows |-> <<>>]

FileRowsAll(d, runId) ==
    {i \in DOMAIN d.file_v1 :
        /\ SqlEq(d.file_v1[i].run_id, runId)
        /\ d.file_v1[i].filepath_id \in DOMAIN d.filepath_v1
        /\ d.file_v1[i].filesha_id \in DOMAIN d.filesha_v1}

\* FileTable.restoreList: with subjects, NameError as in LinkTable.
FileTable_restoreList(d, runId, subjectlist) ==
    IF Len(subjectlist) = 0
    THEN [error |-> "none",
          rows |-> [n \in DOMAIN InRowidOrder(FileRowsAll(d, runId)) |->
                       FileResult(d, InRowidOrder(FileRowsAll(d, runId))[n])]]
    ELSE [error |-> "NameError", rows |-> <<>>]

SnapTables == {"directory_v1", "link_v1", "file_v1"}

\* RestoreList on one of the three snapshot tables.
RestoreList(table, runId, subjectlist) ==
    LET r == CASE table = "directory_v1" -> DirectoryTable_restoreList(db, runId, subjectlist)
               [] table = "link_v1" -> LinkTable_restoreList(db, runId, subjectlist)
               [] table = "file_v1" -> FileTable_restoreList(db, runId, subjectlist)
    IN  /\ last' = [op |-> "RestoreList", table |-> table, runId |-> runId,
                    subjectlist |-> subjectlist, error |-> r.error, rows |-> r.rows]
        /\ UNCHANGED <<db, durable, readOnly, integ, conc, issued>>

(***************************************************************************)
(* listBackups                                                             *)
(***************************************************************************)

\* An argument that is left out (None) where the argument is a string.
None == "None"

\* The rows of listBackups_nohost and listBackups_withhost: a comparison
\* with a NULL endtime is not true, and the joins drop a row whose host_id
\* or status_id names no row.
ListBackupsRows(d, host, notBefore, notAfter) ==
    {i \in DOMAIN d.run_v1 :
        /\ d.run_v1[i].endtime # NULL
        /\ d.run_v1[i].endtime >= notBefore
        /\ d.run_v1[i].starttime <= notAfter
        /\ d.run_v1[i].host_id \in DOMAIN d.host_v1
        /\ d.run_v1[i].status_id \in DOMAIN d.status_v1
        /\ host # None => d.host_v1[d.run_v1[i].host_id] = host}

\* The sequences that hold each of ids once, ascending in starttime: the
\* orders "ORDER BY r.starttime" allows.
ByStarttime(d, ids) ==
    {o \in [1 .. Cardinality(ids) -> ids] :
        /\ \A m, n \in DOMAIN o : m # n => o[m] # o[n]
        /\ \A m, n \in DOMAIN o :
              m < n => d.run_v1[o[m]].starttime <= d.run_v1[o[n]].starttime}

\* The dictionary listBackups yields for a run row.
RunResult(d, i) ==
    [runId |-> i,
     host |-> d.host_v1[d.run_v1[i].host_id],
     starttime |-> d.run_v1[i].starttime,
     endtime |-> d.run_v1[i].endtime,
     status |-> d.status_v1[d.run_v1[i].status_id]]

\* RunTable.listBackups: notBefore and notAfter default to 0 and to the
\* clock's time.
RunTable_listBackups(d, host, notBefore, notAfter, now) ==
    LET nb == IF notBefore = NULL THEN 0 ELSE notBefore
        na == IF notAfter = NULL THEN now ELSE notAfter
        ids == ListBackupsRows(d, host, nb, na)
    IN  {[n \in DOMAIN o |-> RunResult(d, o[n])] : o \in ByStarttime(d, ids)}

\* ListRuns(hostFilter, notBefore, notAfter), called when the clock reads now.
ListRuns(host, notBefore, notAfter, now) ==
    \E rows \in RunTable_listBackups(db, host, notBefore, notAfter, now) :
        /\ last' = [op |-> "ListRuns", host |-> host, notBefore |-> notBefore,
                    notAfter |-> notAfter, now |-> now, rows |-> rows]
        /\ UNCHANGED <<db, durable, readOnly, integ, conc, issued>>

(***************************************************************************)
(* search                                                                  *)
(***************************************************************************)

\* The tag search_dir, search_link and search_file select for a table.
SearchType(table) ==
    CASE table = "directory_v1" -> "DIR"
      [] table = "link_v1" -> "LINK"
      [] table = "file_v1" -> "FILE"

\* The rows of a table the joins of the search selects keep: the row's run
\* exists, and the run's host and the row's path.
Joined(d, table) ==
    {i \in DOMAIN d[table] :
        /\ d[table][i].run_id \in DOMAIN d.run_v1
        /\ d.run_v1[d[table][i].run_id].host_id \in DOMAIN d.host_v1
        /\ d[table][i].filepath_id \in DOMAIN d.filepath_v1}

\* The columns the search selects take from a row; search_link selects 0
\* where the others select the row's filetime.
SearchResult(d, table, i) ==
    [type |-> SearchType(table),
     host |-> HostOf(d, d[table][i].run_id),
     filetime |-> IF table = "link_v1" THEN 0 ELSE d[table][i].filetime,
     filepath |-> d.filepath_v1[d[table][i].filepath_id]]

\* The rows of one search select for a term: SELECT DISTINCT keeps one of
\* the rows that are equal in every column.
SearchRows(d, table, term) ==
    {SearchResult(d, table, i) :
        i \in {j \in Joined(d, table) :
                  LikeContains(d.filepath_v1[d[table][j].filepath_id], term)}}

\* A bug the search selects could have: "ORDER BY f.filetime DESC".
ByFiletime_Descending(rows) ==
    {o \in [1 .. Cardinality(rows) -> rows] :
        /\ \A m, n \in DOMAIN o : m # n => o[m] # o[n]
        /\ \A m, n \in DOMAIN o : m < n => o[m].filetime >= o[n].filetime}

\* The orders "ORDER BY f.filetime" allows for a set of rows; for the rows of
\* search_link, which has no ORDER BY and 0 for every filetime, any order.
ByFiletime(rows) ==
    {o \in [1 .. Cardinality(rows) -> rows] :
        /\ \A m, n \in DOMAIN o : m # n => o[m] # o[n]
        /\ \A m, n \in DOMAIN o : m < n => o[m].filetime <= o[n].filetime}

\* FilepathTable.search: the sequences the generator can yield, for each
\* term the rows of search_dir, then of search_link, then of search_file.
RECURSIVE FilepathTable_search(_, _)
FilepathTable_search(d, subjectlist) ==
    IF subjectlist = <<>> THEN {<<>>}
    ELSE {a \o b \o c \o rest :
             a \in ByFiletime(SearchRows(d, "directory_v1", Head(subjectlist))),
             b \in ByFiletime(SearchRows(d, "link_v1", Head(subjectlist))),
             c \in ByFiletime(SearchRows(d, "file_v1", Head(subjectlist))),
             rest \in FilepathTable_search(d, Tail(subjectlist))}

\* Search(terms)
Search(subjectlist) ==
    \E rows \in FilepathTable_search(db, subjectlist) :
        /\ last' = [op |-> "Search", subjectlist |-> subjectlist, rows |-> rows]
        /\ UNCHANGED <<db, durable, readOnly, integ, conc, issued>>

(***************************************************************************)
(* The queries, on catalogs built by the calls of a backup agent.          *)
(***************************************************************************)

\* Two runs of h1 that hold the same file with the same mtime, directories
\* and links, a directory under a run id that names no run, a run of h2.
CatQ ==
    LET d1 == RunTable_updateStatus(LedgerDB, FALSE, 1, "Done")
        d2 == RunTable_updateEndtime(d1, 1, 5)
        d3 == RunTable_updateEndtime(d2, 2, 6)
        d4 == FileTable_getId(d3, FALSE, 1, "/a", FileA(10, 7), "x1").db
        d5 == FileTable_getId(d4, FALSE, 2, "/a", FileA(10, 7), "x2").db
        d6 == DirectoryTable_getId(d5, FALSE, 1, "/a", DirA(7)).db
        d7 == DirectoryTable_getId(d6, FALSE, 1, "/a/b", DirA(5)).db
        d8 == DirectoryTable_getId(d7, FALSE, 4, "/a/b", DirA(7)).db
        d9 == LinkTable_getId(d8, FALSE, 1, "/a/b", "/a").db
        d10 == FileTable_getId(d9, FALSE, 1, "/a/b", FileA(20, 8), "x1").db
    IN  LinkTable_getId(d10, FALSE, 2, "/a", "/a/b").db

\* A run whose directories and files were recorded latest modification time
\* first, and a link.
CatT ==
    LET d1 == DirectoryTable_getId(LedgerDB, FALSE, 1, "/a/b",
                 [fileowner |-> 0, filegroup |-> 0, filemode |-> 7, filetime |-> 9]).db
        d2 == DirectoryTable_getId(d1, FALSE, 1, "/a",
                 [fileowner |-> 0, filegroup |-> 0, filemode |-> 7, filetime |-> 3]).db
        d3 == FileTable_getId(d2, FALSE, 1, "/a/b", FileA(10, 8), "x1").db
        d4 == FileTable_getId(d3, FALSE, 3, "/a", FileA(10, 4), "x2").db
    IN  LinkTable_getId(d4, FALSE, 1, "/a/b", "/a").db

QueryDBs == {EmptyDB, CatA, CatB, CatC, DestD, CatQ, CatT}

\* The path prefixes RestoreList is given, and the lists of them.
Subjects == {"/a", "/a/b", "/A", "/_", "/b"}

SubjectLists ==
    {<<>>} \cup {<<a>> : a \in Subjects} \cup {<<a, b>> : a \in Subjects, b \in Subjects}

QueryRunIds == {1, 2, 4}

\* The bounds ListRuns is given (NULL: left out), and what the clock reads.
NotBefores == {NULL, 2, 6}

NotAfters == {NULL, 1, 5}

Clock == {9}

\* The terms Search is given, and the lists of them.
Terms == {"a", "b", "B", "/_", "x"}

TermLists ==
    {<<>>} \cup {<<a>> : a \in Terms} \cup {<<a, b>> : a \in Terms, b \in Terms}

InitQuery ==
    /\ issued = {}
    /\ db \in QueryDBs
    /\ durable = db
    /\ readOnly \in BOOLEAN
    /\ last = NoCall
    /\ integ = IntegIdle
    /\ conc = ConcIdle

NextQuery ==
    \/ \E t \in SnapTables : \E r \in QueryRunIds : \E f \in SubjectLists :
          RestoreList(t, r, f)
    \/ \E h \in Hosts \cup {None} : \E nb \in NotBefores : \E na \in NotAfters :
       \E now \in Clock :
          ListRuns(h, nb, na, now)
    \/ \E terms \in TermLists : Search(terms)

SpecQuery == InitQuery /\ [][NextQuery]_vars

\* The record RestoreList is to yield for a row of a snapshot table.
ResultOf(d, table, i) ==
    CASE table = "directory_v1" -> DirResult(d, i)
      [] table = "link_v1" -> LinkResult(d, i)
      [] table = "file_v1" -> FileResult(d, i)

\* C11: RestoreList with no filter yields the observations of the run, each
\* once; with filters it ends without error, yields nothing but observations
\* of the run whose path starts with one of the filters, and yields each of
\* those.
C11_RestoreList ==
    last.op = "RestoreList" =>
        LET t == last.table
            own == {i \in DOMAIN db[t] : db[t][i].run_id = last.runId}
            F == {last.subjectlist[k] : k \in DOMAIN last.subjectlist}
            wanted == {i \in own :
                          \E f \in F : StartsWith(db.filepath_v1[db[t][i].filepath_id], f)}
        IN  /\ last.error = "none"
            /\ IF F = {}
               THEN /\ Len(last.rows) = Cardinality(own)
                    /\ \A i \in own : ResultOf(db, t, i) \in {last.rows[n] : n \in DOMAIN last.rows}
               ELSE {last.rows[n] : n \in DOMAIN last.rows} = {ResultOf(db, t, i) : i \in wanted}

\* C12: ListRuns yields the runs (of the host, when one is given) whose
\* window from start to end overlaps [notBefore, notAfter], a run without an
\* end time and a run of any status among them, each once, ascending in
\* start time, and changes nothing.
C12_ListRuns ==
    [][last'.op = "ListRuns" =>
        LET nb == IF last'.notBefore = NULL THEN 0 ELSE last'.notBefore
            na == IF last'.notAfter = NULL THEN last'.now ELSE last'.notAfter
            rows == last'.rows
            wanted == {i \in DOMAIN db.run_v1 :
                          /\ last'.host # None => HostOf(db, i) = last'.host
                          /\ db.run_v1[i].starttime <= na
                          /\ db.run_v1[i].endtime = NULL \/ db.run_v1[i].endtime >= nb}
        IN  /\ db' = db
            /\ {rows[n].runId : n \in DOMAIN rows} = wanted
            /\ Len(rows) = Cardinality(wanted)
            /\ \A n \in DOMAIN rows :
                  /\ rows[n].host = HostOf(db, rows[n].runId)
                  /\ rows[n].starttime = db.run_v1[rows[n].runId].starttime
                  /\ rows[n].endtime = db.run_v1[rows[n].runId].endtime
            /\ \A m, n \in DOMAIN rows : m < n => rows[m].starttime <= rows[n].starttime]_vars

\* C13: whatever Open, SetStatus and SetEndTime calls were made, in write
\* mode or in read-only mode, every run row has a status_id that names an
\* entry of the Status dictionary, and the run an Open has just returned has
\* the status "Setup".
C13_StatusAlwaysSet ==
    /\ \A i \in DOMAIN db.run_v1 : db.run_v1[i].status_id \in DOMAIN db.status_v1
    /\ last.op = "Open" /\ last.ret # NULL =>
          db.status_v1[db.run_v1[last.ret].status_id] = "Setup"

(***************************************************************************)
(* The integrator, interrupted.                                            *)
(***************************************************************************)

\* main ends before its time (the process is killed, or a statement raises):
\* the connection is dropped with its transaction open, and the destination
\* file holds what the last commit left.
IntegCrash ==
    /\ integ.pc = "running"
    /\ db' = durable
    /\ integ' = [integ EXCEPT !.pc = "crashed"]
    /\ UNCHANGED <<durable, readOnly, last, conc, issued>>

NextCrash ==
    \/ NextInteg
    \/ IntegCrash

SpecCrash == InitInteg /\ [][NextCrash]_vars

\* Two catalogs say the same: the same dictionary values, runs and
\* observations, ids resolved, and as many rows in every table.
SameCatalog(a, b) ==
    /\ ResolvedRuns(a) = ResolvedRuns(b)
    /\ ResolvedObs(a) = ResolvedObs(b)
    /\ \A t \in DictNames : DictSet(a, t) = DictSet(b, t)
    /\ \A t \in TableNames : Len(a[t]) = Len(b[t])

\* C14: the committed destination changes only by the whole of one source
\* run (its run row, status, end time and every observation) applied to the
\* committed destination before it, and an interrupted main leaves the
\* destination as committed: no committed state holds part of a run.
C14_WholeRunsOnly ==
    [][/\ durable' # durable =>
             /\ integ.cur # NULL
             /\ SameCatalog(durable', IntegrateRun(durable, integ.srcs[integ.s], integ.cur))
       /\ integ'.pc = "crashed" => db' = durable /\ durable' = durable]_vars

\* C14's case: main is interrupted in the middle of a run, after it committed
\* another run and copied a directory of this one that the committed
\* destination does not hold.
C14_Witness ==
    /\ integ.pc = "crashed"
    /\ integ.cur # NULL
    /\ durable # integ.db0
    /\ db = durable
    /\ \E i \in SourceDirs(integ.srcs[integ.s], integ.cur) \ integ.todoDirs :
          \A o \in ResolvedObs(durable) :
             ~ (/\ o.kind = "DIR"
                /\ o.run = RunKeyOf(integ.srcs[integ.s], integ.cur)
                /\ o.filepath = integ.srcs[integ.s].filepath_v1[
                                   integ.srcs[integ.s].directory_v1[i].filepath_id]
                /\ o.attrs = [c \in DirCols |-> integ.srcs[integ.s].directory_v1[i][c]])

\* The sum of f[k] over the places k of a sequence of numbers.
RECURSIVE Sum(_)
Sum(f) == IF f = <<>> THEN 0 ELSE Head(f) + Sum(Tail(f))

\* The observations of a table whose run exists and whose path holds the
\* term, letter for letter.
Matching(d, table, term) ==
    {i \in Joined(d, table) : Contains(d.filepath_v1[d[table][i].filepath_id], term)}

\* C15 as stated: Search emits, for each term, one result for each directory,
\* link and file observation whose path holds the term as a case-sensitive
\* substring, with its kind, its run's host and its path; observations of
\* different runs are each emitted.
C15_SearchEachObservation ==
    last.op = "Search" =>
        LET terms == last.subjectlist
            rows == last.rows
        IN  /\ Len(rows) = Sum([k \in DOMAIN terms |->
                                  Cardinality(Matching(db, "directory_v1", terms[k]))
                                  + Cardinality(Matching(db, "link_v1", terms[k]))
                                  + Cardinality(Matching(db, "file_v1", terms[k]))])
            /\ \A k \in DOMAIN terms : \A t \in SnapTables :
                  \A i \in Matching(db, t, terms[k]) :
                     \E n \in DOMAIN rows : rows[n] = SearchResult(db, t, i)
            /\ \A n \in DOMAIN rows :
                  \E k \in DOMAIN terms : Contains(rows[n].filepath, terms[k])

\* path holds the term somewhere, ASCII letters compared without regard to
\* case and "_" in the term standing for any one character.
ContainsLike(path, term) ==
    \E k \in 0 .. Len(Text(path)) :
        /\ k + Len(Text(term)) <= Len(Text(path))
        /\ \A j \in 1 .. Len(Text(term)) :
              \/ Text(term)[j] = "_"
              \/ Fold(Text(term)[j]) = Fold(Text(path)[k + j])

\* The results Search owes for a term and a table: one for each different
\* (kind, host, time, path) among the observations whose run exists and whose
\* path matches.
Owed(d, table, term) ==
    {SearchResult(d, table, i) :
        i \in {j \in Joined(d, table) :
                  ContainsLike(d.filepath_v1[d[table][j].filepath_id], term)}}

\* C15, amended: for each term Search emits one result for each different
\* (kind, host, time, path) among the observations whose run exists and whose
\* path holds the term as LIKE compares (letters without case, "_" for any
\* character): observations that agree in all four are emitted once.
C15_SearchDistinct ==
    last.op = "Search" =>
        LET terms == last.subjectlist
            rows == last.rows
        IN  /\ Len(rows) = Sum([k \in DOMAIN terms |->
                                  Cardinality(Owed(db, "directory_v1", terms[k]))
                                  + Cardinality(Owed(db, "link_v1", terms[k]))
                                  + Cardinality(Owed(db, "file_v1", terms[k]))])
            /\ \A k \in DOMAIN terms : \A t \in SnapTables :
                  \A r \in Owed(db, t, terms[k]) : \E n \in DOMAIN rows : rows[n] = r
            /\ \A n \in DOMAIN rows :
                  \E k \in DOMAIN terms : \E t \in SnapTables : rows[n] \in Owed(db, t, terms[k])

\* C15's case: a Search whose first term matches two files of different runs
\* that agree in host, time and path, and whose results hold a path that does
\* not hold any term letter for letter.
C15_Witness ==
    /\ last.op = "Search"
    /\ Len(last.subjectlist) = 2
    /\ \E i, j \in Joined(db, "file_v1") :
          /\ db.file_v1[i].run_id # db.file_v1[j].run_id
          /\ ContainsLike(db.filepath_v1[db.file_v1[i].filepath_id], last.subjectlist[1])
          /\ SearchResult(db, "file_v1", i) = SearchResult(db, "file_v1", j)
    /\ \E n \in DOMAIN last.rows :
          \A k \in DOMAIN last.subjectlist : ~ Contains(last.rows[n].filepath, last.subjectlist[k])

(***************************************************************************)
(* getId called with any number of values.                                 *)
(***************************************************************************)

\* dataSize of the class of each table.
DataSize(table) ==
    CASE table \in DictNames -> 1
      [] table = "run_v1" -> 2
      [] table = "directory_v1" -> 6
      [] table = "link_v1" -> 3
      [] table = "file_v1" -> 8

\* getId of the class of a table on the values it is given, once their number
\* is right: the tuple is taken apart as the class does.
Dispatch_getId(d, ro, table, data) ==
    CASE table \in DictNames ->
            LET r == Table_getId(d[table], ro, data[1]) IN
            [db |-> [d EXCEPT ![table] = r.rows], id |-> r.id]
      [] table = "run_v1" -> RunTable_getId(d, ro, data[1], data[2])
      [] table = "directory_v1" ->
            DirectoryTable_getId(d, ro, data[1], data[2],
                [fileowner |-> data[3], filegroup |-> data[4],
                 filemode |-> data[5], filetime |-> data[6]])
      [] table = "link_v1" -> LinkTable_getId(d, ro, data[1], data[2], data[3])
      [] table = "file_v1" ->
            FileTable_getId(d, ro, data[1], data[2],
                [fileowner |-> data[3], filegroup |-> data[4], filemode |-> data[5],
                 filesize |-> data[6], filetime |-> data[7]], data[8])

\* A bug getId could have: the snapshot classes resolve the path they are
\* given before the number of values is checked.
Call_getId_CheckLate(d, ro, table, data) ==
    IF Len(data) # DataSize(table)
    THEN IF table \in SnapTables /\ Len(data) >= 2
         THEN [db |-> [d EXCEPT !.filepath_v1 = Table_getId(@, ro, data[2]).rows],
               id |-> NULL, error |-> "TypeError"]
         ELSE [db |-> d, id |-> NULL, error |-> "TypeError"]
    ELSE [db |-> Dispatch_getId(d, ro, table, data).db,
          id |-> Dispatch_getId(d, ro, table, data).id, error |-> "none"]

\* getId(*data) of the class of a table: TypeError, before anything else,
\* when the number of values is not dataSize.
Call_getId(d, ro, table, data) ==
    IF Len(data) # DataSize(table)
    THEN [db |-> d, id |-> NULL, error |-> "TypeError"]
    ELSE [db |-> Dispatch_getId(d, ro, table, data).db,
          id |-> Dispatch_getId(d, ro, table, data).id, error |-> "none"]

\* A caller calls getId of a table with a tuple of values.
Call(table, data) ==
    LET r == Call_getId(db, readOnly, table, data) IN
    /\ Len(r.db.run_v1) <= MaxRuns
    /\ ObsRows(r.db) <= MaxObs
    /\ db' = r.db
    /\ last' = [op |-> "call", table |-> table, data |-> data,
                error |-> r.error, ret |-> r.id]
    /\ UNCHANGED <<durable, readOnly, integ, conc, issued>>

\* The tuples callers pass to getId of a table: of the right size, one value
\* short and one value long.
ArgTuples(table) ==
    CASE table \in DictNames ->
            {<<>>} \cup {<<v>> : v \in DictValues(table) \ {"h1", "Setup", "/a", "x1"}}
            \cup {<<v, v>> : v \in DictValues(table) \ {"h1", "Setup", "/a", "x1"}}
      [] table = "run_v1" ->
            {<<"h2">>, <<"h1", 1>>, <<"h2", 2>>, <<"h2", 1, 1>>}
      [] table = "directory_v1" ->
            {<<1, "/a/b", 0, 0, 7>>, <<1, "/a", 0, 0, 7, 7>>,
             <<1, "/a/b", 0, 0, 7, 7, 7>>}
      [] table = "link_v1" ->
            {<<1, "/a">>, <<1, "/a/b", "/a">>, <<1, "/a", "/a/b", "/a">>}
      [] table = "file_v1" ->
            {<<1, "/a/b", 0, 0, 6, 10, 7>>, <<1, "/a", 0, 0, 6, 10, 7, "x1">>,
             <<1, "/a/b", 0, 0, 6, 10, 7, "x2", "x2">>}

NextArity ==
    \/ \E t \in TableNames : \E data \in ArgTuples(t) : Call(t, data)

SpecArity == InitDict /\ [][NextArity]_vars

\* C16: a getId call with a number of values other than the table's (1 for
\* a dictionary, 2 for Run, 6 for Directory, 3 for Link, 8 for File) fails
\* with TypeError and leaves every table as it was, the dictionaries a call
\* with the right number of values would have added to among them.
C16_ArityCheckedFirst ==
    [][(/\ last'.op = "call"
        /\ Len(last'.data) # (CASE last'.table \in DictNames -> 1
                                [] last'.table = "run_v1" -> 2
                                [] last'.table = "directory_v1" -> 6
                                [] last'.table = "link_v1" -> 3
                                [] last'.table = "file_v1" -> 8))
       => /\ last'.error = "TypeError"
          /\ db' = db
          /\ durable' = durable]_vars

\* C16's case: a File call one value short, in write mode, on a catalog that
\* holds rows but not the path of the call.
C16_Witness ==
    /\ last.op = "call" /\ last.table = "file_v1"
    /\ Len(last.data) = 7
    /\ last.error = "TypeError"
    /\ ~ readOnly
    /\ db.run_v1 # <<>>
    /\ last.data[2] \notin DictSet(db, "filepath_v1")

(***************************************************************************)
(* Transactions: commit and rollback around the dictionary calls.          *)
(***************************************************************************)

\* The transaction in flight is discarded (dbh.rollback(), or the connection
\* is closed or lost before dbh.commit()): the rows inserted since the last
\* commit are gone, and with them the ids AUTOINCREMENT gave them, since the
\* sqlite_sequence row is written in the same transaction.
Rollback ==
    /\ db # durable
    /\ db' = durable
    /\ last' = [op |-> "rollback"]
    /\ UNCHANGED <<durable, readOnly, integ, conc, issued>>

\* The dictionaries the calls of the transaction model are made on.
TxnDicts == {"host_v1", "status_v1"}

InitTxn ==
    /\ db = EmptyDB
    /\ durable = EmptyDB
    /\ readOnly = FALSE
    /\ last = NoCall
    /\ integ = IntegIdle
    /\ conc = ConcIdle
    /\ issued = {}

NextTxn ==
    \/ \E t \in TxnDicts : \E v \in DictValues(t) : GetOrCreate(t, v)
    \/ \E k \in RunKeys : Open(k[1], k[2])
    \/ Commit
    \/ Rollback

SpecTxn == InitTxn /\ [][NextTxn]_vars

\* C17 as stated: an id that a write-mode call once returned for a value is
\* never associated with another value afterwards, transactions that are
\* rolled back included.
C17_IdsNeverReused ==
    \A x \in issued : x[2] \in DOMAIN db[x[1]] => db[x[1]][x[2]] = x[3]

\* C17, amended: a committed dictionary entry is never changed or removed,
\* in the committed catalog or in the connection's view of it, and the id a
\* call returns names an entry with the call's value, so the id of a
\* committed entry is returned for that entry's value alone.  (An id that was
\* returned in a transaction rolled back since names no entry, and is given
\* to the next value inserted.)
C17_CommittedIdsStable ==
    [][/\ \A t \in DictNames : \A i \in DOMAIN durable[t] :
             /\ i \in DOMAIN durable'[t] /\ durable'[t][i] = durable[t][i]
             /\ i \in DOMAIN db'[t] /\ db'[t][i] = durable[t][i]
       /\ last'.op = "getId" /\ last'.ret # NULL =>
             /\ last'.ret \in DOMAIN db'[last'.table]
             /\ db'[last'.table][last'.ret] = last'.value]_vars

\* C17's case: a host is committed under id 1; id 2 was returned for one
\* value in a transaction that was rolled back, and names another now.
C17_Witness ==
    /\ durable.host_v1 # <<>>
    /\ \E x \in issued :
          /\ x[1] = "host_v1"
          /\ x[2] \in DOMAIN db.host_v1
          /\ x[2] \notin DOMAIN durable.host_v1
          /\ db.host_v1[x[2]] # x[3]

\* C18: in write mode the run Open returns is a run of the host and start
\* time given, its status is "Setup" whether Open created it or found it
\* with whatever status, and the end time of a run Open found is what it
\* was; the run Open created has no end time.
C18_OpenSetsSetup ==
    [][(last'.op = "Open" /\ ~ readOnly /\ ~ readOnly') =>
          LET id == last'.ret IN
          /\ id \in DOMAIN db'.run_v1
          /\ RunKeyOf(db', id) = <<last'.host, last'.starttime>>
          /\ db'.run_v1[id].status_id \in DOMAIN db'.status_v1
          /\ db'.status_v1[db'.run_v1[id].status_id] = "Setup"
          /\ IF id \in DOMAIN db.run_v1
             THEN db'.run_v1[id].endtime = db.run_v1[id].endtime
             ELSE db'.run_v1[id].endtime = NULL]_vars

\* C18's case: Open in write mode has returned a run that has an end time,
\* in a ledger that knows the status "Done".
C18_Witness ==
    /\ last.op = "Open" /\ ~ readOnly
    /\ last.ret \in DOMAIN db.run_v1
    /\ db.run_v1[last.ret].endtime # NULL
    /\ db.status_v1[db.run_v1[last.ret].status_id] = "Setup"
    /\ "Done" \in DictSet(db, "status_v1")
    /\ Len(db.run_v1) = 2

\* C19: once the integrator has ended, a destination run that some source
\* holds has the status and the end time of that run in the last source that
\* holds it; so it is in "Setup" only if it is in "Setup" there.
C19_StatusAndEndTimeCopied ==
    integ.pc = "done" =>
        \A i \in DOMAIN db.run_v1 :
            InSources(RunKeyOf(db, i)) =>
                LET k == RunKeyOf(db, i)
                    src == integ.srcs[LastSourceOf(k)]
                IN  \A r \in SourceRunsOf(src, k) :
                        /\ db.run_v1[i].endtime = src.run_v1[r].endtime
                        /\ db.run_v1[i].status_id \in DOMAIN db.status_v1
                        /\ db.status_v1[db.run_v1[i].status_id]
                              = src.status_v1[src.run_v1[r].status_id]

\* C19's case: the integrator has ended; the destination holds a run that
\* both sources hold with different status or end time and that is not in
\* "Setup", and a run of a source that is in "Setup".
C19_Witness ==
    /\ integ.pc = "done"
    /\ \E i \in DOMAIN db.run_v1 :
          /\ Conflict(RunKeyOf(db, i))
          /\ db.status_v1[db.run_v1[i].status_id] # "Setup"
    /\ \E i \in DOMAIN db.run_v1 :
          /\ InSources(RunKeyOf(db, i))
          /\ db.status_v1[db.run_v1[i].status_id] = "Setup"

(***************************************************************************)
(* updateStatus and updateEndtime on ledgers that hold observations.       *)
(***************************************************************************)

RunDBs == {LedgerDB, CatB, CatQ}

InitRuns ==
    /\ db \in RunDBs
    /\ durable = db
    /\ readOnly \in BOOLEAN
    /\ last = NoCall
    /\ integ = IntegIdle
    /\ conc = ConcIdle
    /\ issued = {}

NextRuns ==
    \/ \E i \in RunIds : \E s \in Statuses : SetStatus(i, s)
    \/ \E i \in RunIds : \E t \in EndTimes : SetEndTime(i, t)
    \/ \E ro \in BOOLEAN : Reopen(ro)

SpecRuns == InitRuns /\ [][NextRuns]_vars

C21_ReferentialConsistency ==
    /\ \A i \in DOMAIN db.run_v1 :
          /\ db.run_v1[i].host_id \in DOMAIN db.host_v1
          /\ db.run_v1[i].status_id \in DOMAIN db.status_v1
    /\ \A t \in SnapTables : \A i \in DOMAIN db[t] :
          /\ db[t][i].run_id \in DOMAIN db.run_v1
          /\ db[t][i].filepath_id \in DOMAIN db.filepath_v1
    /\ \A i \in DOMAIN db.link_v1 : db.link_v1[i].destpath_id \in DOMAIN db.filepath_v1
    /\ \A i \in DOMAIN db.file_v1 : db.file_v1[i].filesha_id \in DOMAIN db.filesha_v1

\* C22: on tables opened read-only, a call of Open, SetStatus, Record or
\* FindKnownHash leaves every dictionary, run row and observation row as it
\* was.
C22_ReadOnlyChangesNothing ==
    [][(/\ readOnly
        /\ last'.op \in {"Open", "SetStatus", "RecordDirectory", "RecordLink",
                         "RecordFile", "FindKnownHash"})
       => db' = db]_vars

\* C23: in write mode too, FindKnownHash leaves the Host and Path
\* dictionaries, the run ledger and the snapshot tables as they were, whether
\* it finds a hash or not and whether or not the host and the path were
\* recorded before.
C23_FindKnownHashPure ==
    [][(last'.op = "FindKnownHash" /\ ~ readOnly) => db' = db]_vars

\* C24: RestoreList with filters yields one block for each filter, in the
\* order the filters are given, and the block of a filter holds, once each,
\* the observations of the run whose path starts with that filter; so an
\* observation whose path starts with k of the filters is yielded k times.
C24_OneBlockPerFilter ==
    (last.op = "RestoreList" /\ Len(last.subjectlist) > 0) =>
        LET t == last.table
            F == last.subjectlist
            rows == last.rows
            own == {i \in DOMAIN db[t] : db[t][i].run_id = last.runId}
            match(k) == {i \in own : StartsWith(db.filepath_v1[db[t][i].filepath_id], F[k])}
            cnt == [k \in DOMAIN F |-> Cardinality(match(k))]
            start(k) == Sum(SubSeq(cnt, 1, k - 1))
        IN  /\ last.error = "none"
            /\ Len(rows) = Sum(cnt)
            /\ \A k \in DOMAIN F :
                  {rows[n] : n \in (start(k) + 1) .. (start(k) + cnt[k])}
                     = {ResultOf(db, t, i) : i \in match(k)}

\* The tables Search goes through for each term, in its order.
SearchOrder == <<"directory_v1", "link_v1", "file_v1">>

\* C25: the results of Search are, term after term in the order given, the
\* term's directory results, then its link results, then its file results,
\* each result of the term once; the directory results and the file results
\* of a term ascend in time, the link results carry the time 0, and a result
\* that two terms match is under each of them.
C25_SearchConcatenation ==
    last.op = "Search" =>
        LET terms == last.subjectlist
            rows == last.rows
            owed == [b \in 1 .. 3 * Len(terms) |->
                        Owed(db, SearchOrder[((b - 1) % 3) + 1], terms[((b - 1) \div 3) + 1])]
            cnt == [b \in DOMAIN owed |-> Cardinality(owed[b])]
            start(b) == Sum(SubSeq(cnt, 1, b - 1))
            block(b) == (start(b) + 1) .. (start(b) + cnt[b])
        IN  /\ Len(rows) = Sum(cnt)
            /\ \A b \in DOMAIN owed :
                  /\ {rows[n] : n \in block(b)} = owed[b]
                  /\ \A m, n \in block(b) : m < n => rows[m].filetime <= rows[n].filetime
                  /\ \A n \in block(b) :
                        /\ rows[n].type = SearchType(SearchOrder[((b - 1) % 3) + 1])
                        /\ rows[n].type = "LINK" => rows[n].filetime = 0

\* C25's case: a Search with two different terms that share a result, on a
\* catalog where the first term has two directory results with different
\* times, a link result and two file results with different times.
C25_Witness ==
    /\ last.op = "Search"
    /\ Len(last.subjectlist) = 2
    /\ last.subjectlist[1] # last.subjectlist[2]
    /\ \E m, n \in DOMAIN last.rows : m < n /\ last.rows[m] = last.rows[n]
    /\ \E x, y \in Owed(db, "directory_v1", last.subjectlist[1]) : x.filetime < y.filetime
    /\ \E x, y \in Owed(db, "file_v1", last.subjectlist[1]) : x.filetime < y.filetime
    /\ Owed(db, "link_v1", last.subjectlist[1]) # {}

====
